---- MODULE Spec2Model ----
(***************************************************************************)
(* Model of overseerr-mcp-server: the API client (overseerr.py), the      *)
(* start-up enrichment (server.py) and the tool layer (tools.py).         *)
(*                                                                         *)
(* Python values are modelled as follows: a dict is a function from its   *)
(* keys, a list is a sequence, None is the value None (for ids) or        *)
(* NoneStr (for strings), and an f-string is the sequence of its parts.   *)
(***************************************************************************)
EXTENDS Integers, Sequences, FiniteSets, TLC

VARIABLES
    pc,                   \* position of the process / of the unit under check
    initial_server_data,  \* server.py: the module-level lookup tables
    backend,              \* the environment: what the Overseerr backend reports
    locals,               \* the local variables of the operation being run
    inv                   \* the last invocation: operation, arguments, calls, outcome

vars == <<pc, initial_server_data, backend, locals, inv>>

(***************************************************************************)
(* Bounds of the model.                                                    *)
(***************************************************************************)
MaxEntries == 3           \* longest list of library / user entries drawn
MaxBackend == 1           \* longest list the modelled backend reports
MaxSeasons == 1           \* longest season list given to a TV request

(***************************************************************************)
(* Python values.                                                          *)
(***************************************************************************)
None == -100              \* Python None in an integer position
NoneStr == "<None>"       \* Python None in a string position
EmptyDict == [k \in {} |-> ""]

Truthy(s) == s # NoneStr /\ s # ""

\* dict.get(key, default)
Get(d, key, default) == IF key \in DOMAIN d THEN d[key] ELSE default

\* the sequences over S of length 0..n
SeqsUpTo(S, n) == UNION {[1..k -> S] : k \in 0..n}

Range(s) == {s[i] : i \in DOMAIN s}

(***************************************************************************)
(* overseerr.py: the API client.                                           *)
(***************************************************************************)
\* The attributes class Overseerr defines; any other attribute access on an
\* instance raises AttributeError.
OverseerrMethods ==
    {"_get_client", "close", "_get_headers", "_safe_request", "get_status",
     "get_movie_details", "get_tv_details", "get_season_details",
     "request_movie", "request_tv", "get_requests", "search_media",
     "__aenter__", "__aexit__"}

Methods == {"GET", "POST", "PUT", "DELETE", "PATCH", "post"}

\* str.upper() on the verbs of Methods
Upper(method) == IF method = "post" THEN "POST" ELSE method

StatusCodes == {200, 201, 202, 204, 301, 404, 500}

\* str(status_code)
StatusStr(code) ==
    CASE code = 200 -> "200" [] code = 201 -> "201" [] code = 202 -> "202"
      [] code = 204 -> "204" [] code = 301 -> "301" [] code = 404 -> "404"
      [] code = 500 -> "500"

\* httpx.Response.is_success, which raise_for_status() tests
IsSuccess(code) == code >= 200 /\ code <= 299

\* A reply of the backend to one HTTP request: a transport failure (net), or a
\* response with a status code and a body. A body is empty, a JSON object
\* (dict), a JSON array (list) or text that is not JSON.
Reply(net, status, kind, data, text) ==
    [net |-> net, status |-> status, kind |-> kind, data |-> data, text |-> text]

NetFailure == Reply(TRUE, 0, "empty", EmptyDict, "connection refused")

\* response.json(): raises ValueError unless the body is JSON
JsonFails(reply) == reply.kind \in {"empty", "text"}

\* not response.content
NoContent(reply) == reply.kind = "empty"

Returned(value) == [raised |-> FALSE, type |-> "", msg |-> <<>>, value |-> value]
Raised(type, msg) == [raised |-> TRUE, type |-> type, msg |-> msg, value |-> EmptyDict]

\* except httpx.HTTPStatusError (overseerr.py 61-67)
StatusErrorHandler(method, endpoint, reply) ==
    IF JsonFails(reply)
    THEN Raised("Exception",
                <<"Overseerr API Error ", StatusStr(reply.status), " on ", method,
                  " ", endpoint, ": ",
                  IF reply.text # "" THEN reply.text ELSE "<no error details>">>)
    ELSE IF reply.kind = "list"
    THEN Raised("AttributeError", <<"'list' object has no attribute 'get'">>)
    ELSE Raised("Exception",
                <<"Overseerr API Error ", StatusStr(reply.status), " on ", method,
                  " ", endpoint, ": ",
                  Get(reply.data, "message", "<unknown error message>")>>)

\* except httpx.RequestError (overseerr.py 68-69)
RequestErrorHandler(method, endpoint, reply) ==
    Raised("Exception",
           <<"Network request failed for ", method, " ", endpoint, ": ", reply.text>>)

\* the message of json.JSONDecodeError, a ValueError
DecodeErrorMsg == <<"Expecting value: line 1 column 1 (char 0)">>

\* the try block for a response that passed raise_for_status (overseerr.py 48-59);
\* what it raises here is raised inside the try block
SuccessBody(method, endpoint, reply) ==
    IF reply.status \in {200, 201, 204}
    THEN IF reply.status = 204 \/ NoContent(reply)
         THEN IF Upper(method) \in {"POST", "PUT", "DELETE", "PATCH"}
              THEN Returned([status |-> "success",
                             message |-> <<"Operation ", method, " on ", endpoint,
                                           " successful.">>])
              ELSE Returned(EmptyDict)
         ELSE IF JsonFails(reply)
              THEN Raised("Exception",
                          <<"Invalid JSON received from ", endpoint, ": ", reply.text>>)
              ELSE Returned(reply.data)
    ELSE IF JsonFails(reply)
         THEN Raised("JSONDecodeError", DecodeErrorMsg)
         ELSE Returned(reply.data)

\* except Exception (overseerr.py 70-71): wraps whatever the try block raised
\* that is neither an HTTPStatusError nor a RequestError
UnexpectedHandler(endpoint, tried) ==
    IF tried.raised
    THEN Raised("Exception",
                <<"An unexpected error occurred during the request to ", endpoint, ": ">>
                \o tried.msg)
    ELSE tried

\* Overseerr._safe_request (overseerr.py 42-71)
SafeRequest(method, endpoint, reply) ==
    IF reply.net THEN RequestErrorHandler(method, endpoint, reply)
    ELSE IF ~IsSuccess(reply.status) THEN StatusErrorHandler(method, endpoint, reply)
    ELSE UnexpectedHandler(endpoint, SuccessBody(method, endpoint, reply))

(***************************************************************************)
(* State shared by the specifications.                                     *)
(***************************************************************************)
EmptyTables ==
    [movie_names |-> <<>>, tv_names |-> <<>>, user_display_names |-> <<>>,
     movie_map |-> EmptyDict, tv_map |-> EmptyDict,
     user_display_name_map |-> EmptyDict]

NoBackend == [reachable |-> FALSE, radarr |-> <<>>, sonarr |-> <<>>, users |-> <<>>]

NoLocals == EmptyDict

\* an invocation: the operation, its arguments, the client calls it issued, the
\* client connections it opened and closed, and how it ended
Invocation(op, args, calls, opened, closed, outcome) ==
    [op |-> op, args |-> args, calls |-> calls, opened |-> opened,
     closed |-> closed, outcome |-> outcome]

NoInvocation == Invocation("", EmptyDict, <<>>, 0, 0, Returned(EmptyDict))

(***************************************************************************)
(* SpecRequest: Overseerr._safe_request applied to every verb, path and    *)
(* backend reply of the bounded sets.                                      *)
(***************************************************************************)
Endpoints == {"/api/v1/status", "/api/v1/request"}

Bodies ==
    { [kind |-> "empty", data |-> EmptyDict, text |-> ""],
      [kind |-> "dict", data |-> [message |-> "No such media"], text |-> "{json}"],
      [kind |-> "dict", data |-> [version |-> "1.33.2"], text |-> "{json}"],
      [kind |-> "list", data |-> EmptyDict, text |-> "[]"],
      [kind |-> "text", data |-> EmptyDict, text |-> "Bad Gateway"] }

Replies ==
    {NetFailure} \cup
    {Reply(FALSE, s, b.kind, b.data, b.text) : s \in StatusCodes, b \in Bodies}

InitRequest ==
    /\ pc = "request"
    /\ locals \in [method : Methods, endpoint : Endpoints, reply : Replies]
    /\ inv = NoInvocation
    /\ initial_server_data = EmptyTables
    /\ backend = NoBackend

\* one call of _safe_request
DoSafeRequest ==
    /\ pc = "request"
    /\ pc' = "requested"
    /\ inv' = Invocation("_safe_request", EmptyDict,
                         <<[method |-> locals.method, endpoint |-> locals.endpoint]>>,
                         1, 0,
                         SafeRequest(locals.method, locals.endpoint, locals.reply))
    /\ UNCHANGED <<initial_server_data, backend, locals>>

NextRequest == DoSafeRequest

SpecRequest == InitRequest /\ [][NextRequest]_vars

\* a part of a formatted message
Contains(msg, part) == \E i \in DOMAIN msg : msg[i] = part

Last(msg) == msg[Len(msg)]

Mutating(method) == Upper(method) \in {"POST", "PUT", "DELETE", "PATCH"}

Synthetic(method, endpoint) ==
    [status |-> "success",
     message |-> <<"Operation ", method, " on ", endpoint, " successful.">>]

\* C4: for every 2xx status code, an empty body makes _safe_request return the
\* synthetic success record to a mutating verb and the empty record to a
\* non-mutating verb, and never raise.
C4_EmptyBodyOnAny2xx ==
    (pc = "requested" /\ ~locals.reply.net /\ IsSuccess(locals.reply.status)
        /\ NoContent(locals.reply))
    => /\ ~inv.outcome.raised
       /\ Mutating(locals.method)
            => DOMAIN inv.outcome.value = {"status", "message"}
               /\ inv.outcome.value = Synthetic(locals.method, locals.endpoint)
       /\ ~Mutating(locals.method) => DOMAIN inv.outcome.value = {}

\* C5: _safe_request raises three distinguishable kinds of error, each carrying
\* the method and the path (and the status for the HTTP kind): "invalid
\* payload" for a 2xx response with a non-empty unparsable body, "network
\* failure" for a transport failure, the HTTP status kind for a non-2xx
\* response; an invalid payload is never reported as another kind or as the
\* generic error.
C5_ThreeErrorKinds ==
    pc = "requested" =>
      /\ (~locals.reply.net /\ IsSuccess(locals.reply.status)
            /\ locals.reply.kind = "text")
         => /\ inv.outcome.raised
            /\ inv.outcome.msg[1] = "Invalid JSON received from "
            /\ Contains(inv.outcome.msg, locals.method)
            /\ Contains(inv.outcome.msg, locals.endpoint)
      /\ locals.reply.net
         => /\ inv.outcome.raised
            /\ inv.outcome.msg[1] = "Network request failed for "
            /\ Contains(inv.outcome.msg, locals.method)
            /\ Contains(inv.outcome.msg, locals.endpoint)
      /\ (~locals.reply.net /\ ~IsSuccess(locals.reply.status))
         => /\ inv.outcome.raised
            /\ inv.outcome.msg[1] = "Overseerr API Error "
            /\ Contains(inv.outcome.msg, StatusStr(locals.reply.status))
            /\ Contains(inv.outcome.msg, locals.method)
            /\ Contains(inv.outcome.msg, locals.endpoint)

\* C6: for every non-2xx response the error raised by _safe_request contains
\* the status, the method and the path, and its message part is the body's
\* `message` field when the body is a JSON object with that field, and the raw
\* response text when the body is not JSON.
C6_StatusErrorMessage ==
    (pc = "requested" /\ ~locals.reply.net /\ ~IsSuccess(locals.reply.status))
    => /\ inv.outcome.raised
       /\ Contains(inv.outcome.msg, StatusStr(locals.reply.status))
       /\ Contains(inv.outcome.msg, locals.method)
       /\ Contains(inv.outcome.msg, locals.endpoint)
       /\ (locals.reply.kind = "dict" /\ "message" \in DOMAIN locals.reply.data)
            => Last(inv.outcome.msg) = locals.reply.data.message
       /\ JsonFails(locals.reply) => Last(inv.outcome.msg) = locals.reply.text

(***************************************************************************)
(* server.py: the loops of fetch_initial_data.                             *)
(***************************************************************************)
Names == {"a", "b"}

\* the position of a name in sorted order
NameRank(name) == IF name = "a" THEN 1 ELSE 2

\* sorted(names): insertion of each name at its place
RECURSIVE Insert(_, _)
Insert(name, sorted) ==
    IF sorted = <<>> THEN <<name>>
    ELSE IF NameRank(name) <= NameRank(Head(sorted))
         THEN <<name>> \o sorted
         ELSE <<Head(sorted)>> \o Insert(name, Tail(sorted))

RECURSIVE Sorted(_)
Sorted(names) ==
    IF names = <<>> THEN <<>> ELSE Insert(Head(names), Sorted(Tail(names)))

\* list.remove(x): drops the first occurrence
RECURSIVE Remove(_, _)
Remove(list, x) ==
    IF list = <<>> THEN <<>>
    ELSE IF Head(list) = x THEN Tail(list)
    ELSE <<Head(list)>> \o Remove(Tail(list), x)

\* d[key] = value
Put(d, key, value) == [k \in DOMAIN d \cup {key} |-> IF k = key THEN value ELSE d[k]]

\* del d[key]
Del(d, key) == [k \in DOMAIN d \ {key} |-> d[k]]

\* a later library of the same name replaces the earlier one
LibraryStepLastWins(server, acc) ==
    IF server.id # None /\ Truthy(server.name)
    THEN [names |-> IF server.name \in DOMAIN acc.map THEN acc.names
                    ELSE Append(acc.names, server.name),
          map |-> Put(acc.map, server.name, server.id)]
    ELSE acc

\* the body of `for server in radarr_servers` / `for server in sonarr_servers`
LibraryStep(server, acc) ==
    IF server.id # None /\ Truthy(server.name)
    THEN IF server.name \notin DOMAIN acc.map
         THEN [names |-> Append(acc.names, server.name),
               map |-> Put(acc.map, server.name, server.id)]
         ELSE acc
    ELSE acc

RECURSIVE LibraryLoop(_, _)
LibraryLoop(servers, acc) ==
    IF servers = <<>> THEN acc
    ELSE LibraryLoop(Tail(servers), LibraryStep(Head(servers), acc))

NoLibraries == [names |-> <<>>, map |-> EmptyDict]

\* a name once found duplicated is added again by its next occurrence
UserStepForgetful(user, acc) ==
    IF user.id # None /\ Truthy(user.displayName)
    THEN IF user.displayName \in DOMAIN acc.map
         THEN [names |-> Remove(acc.names, user.displayName),
               map |-> Del(acc.map, user.displayName),
               duplicate_users |-> acc.duplicate_users]
         ELSE [names |-> Append(acc.names, user.displayName),
               map |-> Put(acc.map, user.displayName, user.id),
               duplicate_users |-> acc.duplicate_users]
    ELSE acc

\* the body of `for user in all_users_raw`
UserStep(user, acc) ==
    IF user.id # None /\ Truthy(user.displayName)
    THEN IF user.displayName \in DOMAIN acc.map
         THEN [names |-> IF user.displayName \in Range(acc.names)
                         THEN Remove(acc.names, user.displayName)
                         ELSE acc.names,
               map |-> Del(acc.map, user.displayName),
               duplicate_users |->
                   IF user.displayName \notin Range(acc.duplicate_users)
                   THEN Append(acc.duplicate_users, user.displayName)
                   ELSE acc.duplicate_users]
         ELSE IF user.displayName \notin Range(acc.duplicate_users)
         THEN [names |-> Append(acc.names, user.displayName),
               map |-> Put(acc.map, user.displayName, user.id),
               duplicate_users |-> acc.duplicate_users]
         ELSE acc
    ELSE acc

RECURSIVE UserLoop(_, _)
UserLoop(users, acc) ==
    IF users = <<>> THEN acc
    ELSE UserLoop(Tail(users), UserStep(Head(users), acc))

NoUsers == [names |-> <<>>, map |-> EmptyDict, duplicate_users |-> <<>>]

\* server.py 123-128: the tables are published to initial_server_data
Publish(movies, tv, users) ==
    [movie_names |-> Sorted(movies.names), tv_names |-> Sorted(tv.names),
     user_display_names |-> Sorted(users.names),
     movie_map |-> movies.map, tv_map |-> tv.map,
     user_display_name_map |-> users.map]

(***************************************************************************)
(* SpecLoops: the loops of fetch_initial_data applied to every list of     *)
(* entries of the bounded sets.                                            *)
(***************************************************************************)
Ids == {0, 1}

ServerEntries == [id : Ids \cup {None}, name : Names \cup {"", NoneStr}]
UserEntries == [id : Ids \cup {None}, displayName : Names \cup {"", NoneStr}]

InitLoops ==
    /\ pc = "fetched"
    /\ \/ locals \in [kind : {"radarr", "sonarr"},
                      entries : SeqsUpTo(ServerEntries, MaxEntries)]
       \/ locals \in [kind : {"users"},
                      entries : SeqsUpTo(UserEntries, MaxEntries)]
    /\ inv = NoInvocation
    /\ initial_server_data = EmptyTables
    /\ backend = NoBackend

\* server.py 47-56 and 123, 126
BuildMovieTable ==
    /\ pc = "fetched" /\ locals.kind = "radarr"
    /\ pc' = "published"
    /\ initial_server_data' =
           Publish(LibraryLoop(locals.entries, NoLibraries), NoLibraries, NoUsers)
    /\ UNCHANGED <<backend, locals, inv>>

\* server.py 62-71 and 124, 127
BuildTvTable ==
    /\ pc = "fetched" /\ locals.kind = "sonarr"
    /\ pc' = "published"
    /\ initial_server_data' =
           Publish(NoLibraries, LibraryLoop(locals.entries, NoLibraries), NoUsers)
    /\ UNCHANGED <<backend, locals, inv>>

\* server.py 95-118 and 125, 128
BuildUserTable ==
    /\ pc = "fetched" /\ locals.kind = "users"
    /\ pc' = "published"
    /\ initial_server_data' =
           Publish(NoLibraries, NoLibraries, UserLoop(locals.entries, NoUsers))
    /\ UNCHANGED <<backend, locals, inv>>

NextLoops == BuildMovieTable \/ BuildTvTable \/ BuildUserTable

SpecLoops == InitLoops /\ [][NextLoops]_vars

\* the positions of the usable entries carrying a name
LibraryEntriesNamed(entries, name) ==
    {i \in DOMAIN entries : entries[i].id # None /\ entries[i].name = name}

UserEntriesNamed(entries, name) ==
    {i \in DOMAIN entries : entries[i].id # None /\ entries[i].displayName = name}

Min(S) == CHOOSE i \in S : \A j \in S : i <= j

\* the table and the name list of the kind of library that was fetched
FetchedMap == IF locals.kind = "radarr" THEN initial_server_data.movie_map
              ELSE initial_server_data.tv_map
FetchedNames == IF locals.kind = "radarr" THEN initial_server_data.movie_names
                ELSE initial_server_data.tv_names

\* C8: the final user map holds a displayName iff exactly one entry with a
\* non-null id and a non-empty displayName carries it (it then maps to that
\* entry's id), and the name list has exactly the keys of the map.
C8_UserMapExcludesDuplicates ==
    (pc = "published" /\ locals.kind = "users") =>
      LET map == initial_server_data.user_display_name_map
          names == initial_server_data.user_display_names
      IN  /\ \A n \in Names \cup {"", NoneStr} :
                n \in DOMAIN map
                <=> (Truthy(n) /\ Cardinality(UserEntriesNamed(locals.entries, n)) = 1)
          /\ \A n \in DOMAIN map :
                map[n] = locals.entries[Min(UserEntriesNamed(locals.entries, n))].id
          /\ Range(names) = DOMAIN map
          /\ Len(names) = Cardinality(DOMAIN map)

\* a displayName carried by three entries was dropped from the map
C8_Witness ==
    /\ pc = "published" /\ locals.kind = "users"
    /\ Cardinality(UserEntriesNamed(locals.entries, "a")) = 3
    /\ Cardinality(UserEntriesNamed(locals.entries, "b")) = 0
    /\ "a" \notin DOMAIN initial_server_data.user_display_name_map

\* C9: the lookup table of a kind of library has exactly one entry per
\* distinct name among the entries with a non-null id and a non-empty name, and
\* it maps the name to the id of the first such entry.
C9_LibraryFirstSeenWins ==
    (pc = "published" /\ locals.kind \in {"radarr", "sonarr"}) =>
      /\ \A n \in Names \cup {"", NoneStr} :
            n \in DOMAIN FetchedMap
            <=> (Truthy(n) /\ LibraryEntriesNamed(locals.entries, n) # {})
      /\ \A n \in DOMAIN FetchedMap :
            FetchedMap[n] = locals.entries[Min(LibraryEntriesNamed(locals.entries, n))].id
      /\ Range(FetchedNames) = DOMAIN FetchedMap
      /\ Len(FetchedNames) = Cardinality(DOMAIN FetchedMap)

\* two usable entries of one name with different ids: the first one's id is kept
C9_Witness ==
    /\ pc = "published" /\ locals.kind = "sonarr"
    /\ Len(locals.entries) >= 2
    /\ locals.entries[1] = [id |-> 1, name |-> "a"]
    /\ locals.entries[2] = [id |-> 0, name |-> "a"]
    /\ initial_server_data.tv_map = [n \in {"a"} |-> 1]

(***************************************************************************)
(* overseerr.py: the endpoint operations, and a call of one of them.       *)
(***************************************************************************)
DefaultRequestUserId == 1

\* an Optional[List[int]] argument
NoneList == [none |-> TRUE, items |-> <<>>]
SomeList(items) == [none |-> FALSE, items |-> items]

\* the JSON body request_movie posts (overseerr.py 86-95)
RequestMovieBody(tmdb_id, user_id, server_id) ==
    LET data == [mediaType |-> "movie", mediaId |-> tmdb_id,
                 userId |-> IF user_id # None THEN user_id ELSE DefaultRequestUserId]
    IN  IF server_id # None THEN Put(data, "serverId", server_id) ELSE data

\* seasons = [] is sent as it is given
RequestTvBodyKeepsEmpty(tmdb_id, seasons, user_id, server_id) ==
    LET data == [mediaType |-> "tv", mediaId |-> tmdb_id,
                 seasons |-> IF ~seasons.none THEN seasons.items ELSE <<-1>>,
                 userId |-> IF user_id # None THEN user_id ELSE DefaultRequestUserId]
    IN  IF server_id # None THEN Put(data, "serverId", server_id) ELSE data

\* the JSON body request_tv posts (overseerr.py 97-107)
RequestTvBody(tmdb_id, seasons, user_id, server_id) ==
    LET data == [mediaType |-> "tv", mediaId |-> tmdb_id,
                 seasons |-> IF ~seasons.none /\ seasons.items # <<>>
                             THEN seasons.items ELSE <<-1>>,
                 userId |-> IF user_id # None THEN user_id ELSE DefaultRequestUserId]
    IN  IF server_id # None THEN Put(data, "serverId", server_id) ELSE data

\* the verb and the path family of each endpoint operation (overseerr.py 74-118)
MethodVerb(name) == IF name \in {"request_movie", "request_tv"} THEN "POST" ELSE "GET"

MethodPath(name) ==
    CASE name = "get_status" -> "/api/v1/status"
      [] name = "get_movie_details" -> "/api/v1/movie/{movie_id}"
      [] name = "get_tv_details" -> "/api/v1/tv/{tv_id}"
      [] name = "get_season_details" -> "/api/v1/tv/{tv_id}/season/{season_id}"
      [] name \in {"request_movie", "request_tv", "get_requests"} -> "/api/v1/request"
      [] name = "search_media" -> "/api/v1/search"

\* what a tool or the enrichment records of a client call: the attribute
\* called, what was sent (the JSON body or the key of the call), whether the
\* call reached the network and whether it raised
Call(name, sent, got) ==
    [name |-> name, sent |-> sent, network |-> name \in OverseerrMethods,
     raised |-> got.raised]

\* `await client.<name>(...)`: an attribute class Overseerr does not define
\* raises AttributeError, the others go through _safe_request
CallClient(name, reply) ==
    IF name \notin OverseerrMethods
    THEN Raised("AttributeError",
                <<"'Overseerr' object has no attribute '", name, "'">>)
    ELSE SafeRequest(MethodVerb(name), MethodPath(name), reply)

(***************************************************************************)
(***************************************************************************)
(* The connection of an Overseerr instance (overseerr.py 15, 22-34,        *)
(* 120-125): the connections the instance has made, each open or closed,   *)
(* and the one it references (0 for None).                                 *)
(***************************************************************************)
NewOverseerr == [_client |-> 0, made |-> <<>>]

\* self._client.is_closed
IsClosed(o) == o.made[o._client] = "closed"

\* Overseerr._get_client (overseerr.py 22-29)
GetClient(o) ==
    IF o._client = 0 \/ IsClosed(o)
    THEN [_client |-> Len(o.made) + 1, made |-> Append(o.made, "open")]
    ELSE o

\* the test of Overseerr.close (overseerr.py 32)
Closable(o) == o._client # 0 /\ ~IsClosed(o)

\* closing leaves the connection open
CloseStartLeavesOpen(o) == o

\* `self._client.aclose()` (overseerr.py 33): the connection is marked closed
\* at once, before the coroutine can be suspended
CloseStart(o) == [o EXCEPT !.made[o._client] = "closed"]

\* `self._client = None` (overseerr.py 34), when aclose is over
CloseFinish(o) == [o EXCEPT !._client = 0]

\* Overseerr.close (overseerr.py 31-34), run without interruption
Close(o) == IF Closable(o) THEN CloseFinish(CloseStart(o)) ELSE o

\* Overseerr.__aenter__ and __aexit__ (overseerr.py 120-125)
AEnter(o) == GetClient(o)
AExit(o) == Close(o)

\* the calls of a scope's body: each one that goes through _safe_request
\* obtains the connection first (overseerr.py 44)
RECURSIVE ClientCalls(_, _)
ClientCalls(o, calls) ==
    IF calls = <<>> THEN o
    ELSE ClientCalls(IF Head(calls).network THEN GetClient(o) ELSE o, Tail(calls))

\* the scope is left without its exit when a call of the body raised
WithClientExitOnSuccess(calls) ==
    LET o == ClientCalls(AEnter(NewOverseerr), calls)
    IN  IF \E i \in DOMAIN calls : calls[i].raised THEN o ELSE AExit(o)

\* `async with Overseerr(...) as client:` around a body that makes the calls:
\* the exit runs however the body is left
WithClient(calls) == AExit(ClientCalls(AEnter(NewOverseerr), calls))

\* the connections an instance has made, and those of them that are closed
Opened(o) == Len(o.made)
Closed(o) == Cardinality({i \in DOMAIN o.made : o.made[i] = "closed"})

\* the record of an invocation whose calls are made in one client scope
Scoped(op, args, calls, outcome) ==
    Invocation(op, args, calls, Opened(WithClient(calls)), Closed(WithClient(calls)),
               outcome)

(* The backend, as far as the enrichment sees it: whether it can be        *)
(* reached, and the libraries and users it reports.                        *)
(***************************************************************************)
\* the reply to a listing of libraries
BackendListReply(b, list) ==
    IF b.reachable THEN Reply(FALSE, 200, "list", list, "[json]") ELSE NetFailure

\* the number of pages of `take` entries that hold n entries (at least one)
PageCount(n, take) == IF n = 0 THEN 1 ELSE (n + take - 1) \div take

\* the reply to a listing of users with take and skip
BackendUsersReply(b, take, skip) ==
    IF b.reachable
    THEN Reply(FALSE, 200, "dict",
               [pageInfo |-> [pages |-> PageCount(Len(b.users), take)],
                results |-> SubSeq(b.users, skip + 1,
                                   IF skip + take < Len(b.users) THEN skip + take
                                   ELSE Len(b.users))],
               "{json}")
    ELSE NetFailure

(***************************************************************************)
(* server.py: fetch_initial_data, run once when the module is imported.    *)
(***************************************************************************)
Take == 50

\* the exception of the fetch is not caught by the block
LibraryBlockUncaught(name, reply) ==
    LET got == CallClient(name, reply)
    IN  [calls |-> <<Call(name, <<>>, got)>>,
         table |-> IF got.raised THEN NoLibraries
                   ELSE LibraryLoop(got.value, NoLibraries),
         escaped |-> got.raised]

\* one try block fetching the libraries of a kind (server.py 45-58, 60-73);
\* its except clause lets nothing escape
LibraryBlock(name, reply) ==
    LET got == CallClient(name, reply)
    IN  [calls |-> <<Call(name, <<>>, got)>>,
         table |-> IF got.raised THEN NoLibraries
                   ELSE LibraryLoop(got.value, NoLibraries),
         escaped |-> FALSE]

\* a failed page makes the loop forget the users of the pages before it
RECURSIVE UsersPagesForgetful(_, _, _, _, _)
UsersPagesForgetful(gots, page, total_pages, all_users_raw, calls) ==
    IF page > total_pages
    THEN [all_users_raw |-> all_users_raw, calls |-> calls]
    ELSE LET skip == (page - 1) * Take
             got == gots[page]
             call == Call("get_users", [take |-> Take, skip |-> skip], got)
         IN  IF got.raised
             THEN [all_users_raw |-> <<>>, calls |-> Append(calls, call)]
             ELSE UsersPagesForgetful(gots, page + 1,
                             Get(Get(got.value, "pageInfo", EmptyDict), "pages", 1),
                             all_users_raw \o Get(got.value, "results", <<>>),
                             Append(calls, call))

\* the while loop fetching the pages of users (server.py 76-92), given what
\* `await client.get_users(take, skip)` gives for each page
RECURSIVE UsersPagesOn(_, _, _, _, _)
UsersPagesOn(gots, page, total_pages, all_users_raw, calls) ==
    IF page > total_pages
    THEN [all_users_raw |-> all_users_raw, calls |-> calls]
    ELSE LET skip == (page - 1) * Take
             got == gots[page]
             call == Call("get_users", [take |-> Take, skip |-> skip], got)
         IN  IF got.raised
             THEN [all_users_raw |-> all_users_raw, calls |-> Append(calls, call)]
             ELSE UsersPagesOn(gots, page + 1,
                             Get(Get(got.value, "pageInfo", EmptyDict), "pages", 1),
                             all_users_raw \o Get(got.value, "results", <<>>),
                             Append(calls, call))

\* the loop against the backend: the client answers each page's call
UsersPages(b, page, total_pages, all_users_raw, calls) ==
    UsersPagesOn([p \in 1..PageCount(Len(b.users), Take) |->
                     CallClient("get_users",
                                BackendUsersReply(b, Take, (p - 1) * Take))],
                 page, total_pages, all_users_raw, calls)

\* the fetch and the de-duplication of the users (server.py 75-118)
UsersBlock(b) ==
    LET fetched == UsersPages(b, 1, 1, <<>>, <<>>)
    IN  [calls |-> fetched.calls,
         table |-> UserLoop(fetched.all_users_raw, NoUsers)]

\* the body of fetch_initial_data (server.py 35-128): what escapes a block
\* ends the `async with` and is caught by the outer except clause
FetchInitialDataResult(b) ==
    LET radarr == LibraryBlock("get_radarr_servers", BackendListReply(b, b.radarr))
        sonarr == LibraryBlock("get_sonarr_servers", BackendListReply(b, b.sonarr))
        users == UsersBlock(b)
    IN  IF radarr.escaped
        THEN [calls |-> radarr.calls,
              tables |-> Publish(radarr.table, NoLibraries, NoUsers)]
        ELSE IF sonarr.escaped
        THEN [calls |-> radarr.calls \o sonarr.calls,
              tables |-> Publish(radarr.table, sonarr.table, NoUsers)]
        ELSE [calls |-> radarr.calls \o sonarr.calls \o users.calls,
              tables |-> Publish(radarr.table, sonarr.table, users.table)]

(***************************************************************************)
(* Spec: the process. Importing server.py runs fetch_initial_data against  *)
(* the backend; the tools are then invoked in any order.                   *)
(***************************************************************************)
BackendServers == [id : {1}, name : Names]
BackendUsers == [id : {1}, displayName : Names]

Init ==
    /\ pc = "import"
    /\ backend \in [reachable : BOOLEAN,
                    radarr : SeqsUpTo(BackendServers, MaxBackend),
                    sonarr : SeqsUpTo(BackendServers, MaxBackend),
                    users : SeqsUpTo(BackendUsers, MaxBackend)]
    /\ initial_server_data = EmptyTables
    /\ locals = NoLocals
    /\ inv = NoInvocation

\* server.py 130-133: asyncio.run(fetch_initial_data()) inside try/except
FetchInitialData ==
    /\ pc = "import"
    /\ LET done == FetchInitialDataResult(backend)
       IN  /\ initial_server_data' = done.tables
           /\ inv' = Scoped("fetch_initial_data", EmptyDict, done.calls,
                                Returned(EmptyDict))
    /\ pc' = "imported"
    /\ UNCHANGED <<backend, locals>>

\* server.py 136-145: the app is created, the tools are registered and main()
\* serves them
Serve ==
    /\ pc = "imported"
    /\ pc' = "serving"
    /\ inv' = NoInvocation
    /\ UNCHANGED <<initial_server_data, backend, locals>>

(***************************************************************************)
(* tools.py: the tools. Each is an operator from its arguments and the     *)
(* replies of the backend to the invocation it makes: the client calls in  *)
(* order, the connections opened and closed, and the value returned or the *)
(* exception raised.                                                       *)
(***************************************************************************)
OkReply(data) == Reply(FALSE, 200, "dict", data, "{json}")

\* the three failures the client raises: HTTP status, network, invalid payload
FailureReplies ==
    { Reply(FALSE, 500, "dict", [message |-> "Internal error"], "{json}"),
      NetFailure,
      Reply(FALSE, 200, "text", EmptyDict, "<html>") }

ErrorValue(prefix, exc) == Returned([error |-> <<prefix>> \o exc.msg])

\* MEDIA_STATUS_MAPPING.get(code, "UNKNOWN") (tools.py 18-24, 93)
MediaStatus(code) ==
    CASE code = 1 -> "UNKNOWN" [] code = 2 -> "PENDING" [] code = 3 -> "PROCESSING"
      [] code = 4 -> "PARTIALLY_AVAILABLE" [] code = 5 -> "AVAILABLE"
      [] OTHER -> "UNKNOWN"

\* overseerr_status (tools.py 26-39): the call is made inside `async with`
\* and outside any try block
StatusTool(reply) ==
    LET got == CallClient("get_status", reply)
        calls == <<Call("get_status", <<>>, got)>>
    IN  IF got.raised
        THEN Scoped("overseerr_status", EmptyDict, calls, got)
        ELSE Scoped("overseerr_status", EmptyDict, calls,
                        Returned([available |-> "version" \in DOMAIN got.value,
                                  lines |-> got.value]))

ValidStatuses ==
    {"all", "approved", "available", "pending", "processing", "unavailable", "failed"}

\* max(0, n if n is not None else default) (tools.py 57-58)
Clamp(n, default) ==
    LET m == IF n # None THEN n ELSE default IN IF m > 0 THEN m ELSE 0

\* api_params (tools.py 61-68)
ApiParams(status, take, skip) ==
    LET st == IF Truthy(status) /\ status \notin ValidStatuses THEN NoneStr ELSE status
        base == [take |-> Clamp(take, 7), skip |-> Clamp(skip, 0)]
    IN  IF Truthy(st) /\ st # "all" THEN Put(base, "filter", st) ELSE base

\* the order of the timestamps the model uses, as Python compares strings
DateRank(date) ==
    CASE date = "" -> 0 [] date = "2024-01" -> 1 [] date = "2024-02" -> 2
      [] date = "2024-03" -> 3

\* start_date and start_date > created_at
Before(start_date, created_at) ==
    Truthy(start_date) /\ DateRank(start_date) > DateRank(created_at)

\* the truth value of an id: neither None nor 0
TruthyId(id) == id # None /\ id # 0

\* f"{n:02d}"
Pad2(n) ==
    CASE n = 0 -> "00" [] n = 1 -> "01" [] n = 2 -> "02" [] n = 3 -> "03"
      [] n = 4 -> "04" [] OTHER -> "NN"

\* what the backend answers to the detail fetches of one invocation: the
\* catalog ids and the season numbers whose fetch fails
DetailsReply(env, id, data) ==
    IF id \in env.failDetails THEN NetFailure ELSE OkReply(data)

SeasonReply(env, season_number, data) ==
    IF season_number \in env.failSeasons THEN NetFailure ELSE OkReply(data)

\* the catalog of the backend
CatalogSeasons == 2
MovieDetails == [title |-> "Movie"]
TvDetails == [name |-> "Show",
              seasons |-> [n \in 1..(CatalogSeasons + 1) |-> [seasonNumber |-> n - 1]]]
SeasonDetails == [episodes |-> <<[episodeNumber |-> 1, name |-> "Pilot"]>>]

\* the show details the backend holds: the ones the invocation's environment
\* gives, else the catalog's
ShowDetails(env) == IF "show" \in DOMAIN env THEN env.show ELSE TvDetails

\* a title: a text and, for f"... (ID: {id})", the id formatted into it
Title(text, id) == [text |-> text, id |-> id]

\* the movies are told from the shows by the mediaType field of the media
MovieResultStepByType(result, start_date, env, acc) ==
    LET media_info == Get(result, "media", EmptyDict)
        created_at == Get(result, "createdAt", "")
    IN  IF DOMAIN media_info # {} /\ Get(media_info, "mediaType", "movie") = "movie"
        THEN IF Before(start_date, created_at) THEN acc
             ELSE [rows |-> Append(acc.rows,
                              [title |-> Title("Unknown Movie", None),
                               media_availability |->
                                   MediaStatus(Get(media_info, "status", 1)),
                               request_date |-> created_at]),
                   calls |-> acc.calls]
        ELSE acc

\* the body of `for result in results` of overseerr_movie_requests
\* (tools.py 74-100), added to the rows and calls so far
MovieResultStep(result, start_date, env, acc) ==
    LET media_info == Get(result, "media", EmptyDict)
        created_at == Get(result, "createdAt", "")
        movie_id == Get(media_info, "tmdbId", None)
        got == CallClient("get_movie_details", DetailsReply(env, movie_id, MovieDetails))
        title == IF TruthyId(movie_id)
                 THEN IF got.raised THEN Title("Unknown Movie (ID: {movie_id})", movie_id)
                      ELSE Title(Get(got.value, "title", "Unknown Movie"), None)
                 ELSE Title("Unknown Movie (No TMDB ID)", None)
    IN  IF DOMAIN media_info # {} /\ ~TruthyId(Get(media_info, "tvdbId", None))
        THEN IF Before(start_date, created_at) THEN acc
             ELSE [rows |-> Append(acc.rows,
                              [title |-> title,
                               media_availability |->
                                   MediaStatus(Get(media_info, "status", 1)),
                               request_date |-> created_at]),
                   calls |-> IF TruthyId(movie_id)
                             THEN Append(acc.calls,
                                         Call("get_movie_details", movie_id, got))
                             ELSE acc.calls]
        ELSE acc

RECURSIVE MovieResults(_, _, _, _)
MovieResults(results, start_date, env, acc) ==
    IF results = <<>> THEN acc
    ELSE MovieResults(Tail(results), start_date, env,
                      MovieResultStep(Head(results), start_date, env, acc))

\* overseerr_movie_requests (tools.py 42-106)
MovieRequestsTool(status, start_date, take, skip, reply, env) ==
    LET args == [status |-> status, start_date |-> start_date, take |-> take,
                 skip |-> skip]
        api_params == ApiParams(status, take, skip)
        got == CallClient("get_requests", reply)
        first == <<Call("get_requests", api_params, got)>>
        done == MovieResults(Get(got.value, "results", <<>>), start_date, env,
                             [rows |-> <<>>, calls |-> first])
    IN  IF got.raised
        THEN Scoped("overseerr_movie_requests", args, first,
                        ErrorValue("Error fetching movie requests: ", got))
        ELSE Scoped("overseerr_movie_requests", args, done.calls,
                        Returned(done.rows))

\* the episode rows of a season (tools.py 186-192)
EpisodeRows(season_details) ==
    LET episodes == Get(season_details, "episodes", <<>>)
    IN  [i \in DOMAIN episodes |->
            [episode_number |-> Pad2(Get(episodes[i], "episodeNumber", 0)),
             episode_name |-> Get(episodes[i], "name", "Episode {episode_number}")]]

\* a season whose details cannot be fetched gives no row
TvSeasonStepDropsFailed(season_summary, row, requested_seasons, env, acc) ==
    LET season_number == Get(season_summary, "seasonNumber", None)
        season_str == <<"S", Pad2(season_number)>>
        got == CallClient("get_season_details",
                          SeasonReply(env, season_number, SeasonDetails))
        called == Append(acc.calls,
                         Call("get_season_details",
                              [tv_id |-> row.tv_id, season |-> season_number], got))
    IN  IF season_number = None \/ season_number = 0 THEN acc
        ELSE IF requested_seasons # {} /\ season_number \notin requested_seasons
        THEN acc
        ELSE IF got.raised THEN [rows |-> acc.rows, calls |-> called]
        ELSE [rows |-> Append(acc.rows,
                         [tv_title |-> row.tv_title,
                          tv_title_availability |-> row.tv_title_availability,
                          tv_season |-> season_str,
                          tv_season_availability |-> row.tv_title_availability,
                          tv_episodes |-> EpisodeRows(got.value),
                          request_date |-> row.request_date]),
              calls |-> called]

\* the body of `for season_summary in seasons_data` (tools.py 168-206)
TvSeasonStep(season_summary, row, requested_seasons, env, acc) ==
    LET season_number == Get(season_summary, "seasonNumber", None)
        season_str == <<"S", Pad2(season_number)>>
        got == CallClient("get_season_details",
                          SeasonReply(env, season_number, SeasonDetails))
        episodes == IF got.raised
                    THEN <<[error |-> <<"Could not fetch details for ">> \o season_str]>>
                    ELSE EpisodeRows(got.value)
    IN  IF season_number = None \/ season_number = 0 THEN acc
        ELSE IF requested_seasons # {} /\ season_number \notin requested_seasons
        THEN acc
        ELSE [rows |-> Append(acc.rows,
                         [tv_title |-> row.tv_title,
                          tv_title_availability |-> row.tv_title_availability,
                          tv_season |-> season_str,
                          tv_season_availability |-> row.tv_title_availability,
                          tv_episodes |-> episodes,
                          request_date |-> row.request_date]),
              calls |-> Append(acc.calls,
                               Call("get_season_details",
                                    [tv_id |-> row.tv_id, season |-> season_number],
                                    got))]

RECURSIVE TvSeasons(_, _, _, _, _)
TvSeasons(seasons_data, row, requested_seasons, env, acc) ==
    IF seasons_data = <<>> THEN acc
    ELSE TvSeasons(Tail(seasons_data), row, requested_seasons, env,
                   TvSeasonStep(Head(seasons_data), row, requested_seasons, env, acc))

\* the body of `for result in results` of overseerr_tv_requests (tools.py 141-206)
TvResultStep(result, start_date, env, acc) ==
    LET media_info == Get(result, "media", EmptyDict)
        created_at == Get(result, "createdAt", "")
        tv_id == Get(media_info, "tmdbId", None)
        got == CallClient("get_tv_details", DetailsReply(env, tv_id, ShowDetails(env)))
        tv_title == IF TruthyId(tv_id)
                    THEN IF got.raised
                         THEN Title("Unknown TV Show (ID: {tv_id})", tv_id)
                         ELSE Title(Get(got.value, "name", "Unknown TV Show"), None)
                    ELSE Title("Unknown TV Show (No TMDB ID)", None)
        seasons_data == IF TruthyId(tv_id) /\ ~got.raised
                        THEN Get(got.value, "seasons", <<>>)
                        ELSE <<>>
        requested == Get(result, "seasons", <<>>)
        requested_seasons ==
            {Get(requested[i], "seasonNumber", None) : i \in DOMAIN requested}
        row == [tv_id |-> tv_id, tv_title |-> tv_title,
                tv_title_availability |-> MediaStatus(Get(media_info, "status", 1)),
                request_date |-> created_at]
    IN  IF DOMAIN media_info # {} /\ TruthyId(Get(media_info, "tvdbId", None))
        THEN IF Before(start_date, created_at) THEN acc
             ELSE TvSeasons(seasons_data, row, requested_seasons, env,
                     [rows |-> acc.rows,
                      calls |-> IF TruthyId(tv_id)
                                THEN Append(acc.calls, Call("get_tv_details", tv_id, got))
                                ELSE acc.calls])
        ELSE acc

RECURSIVE TvResults(_, _, _, _)
TvResults(results, start_date, env, acc) ==
    IF results = <<>> THEN acc
    ELSE TvResults(Tail(results), start_date, env,
                   TvResultStep(Head(results), start_date, env, acc))

\* overseerr_tv_requests (tools.py 109-211)
TvRequestsTool(status, start_date, take, skip, reply, env) ==
    LET args == [status |-> status, start_date |-> start_date, take |-> take,
                 skip |-> skip]
        api_params == ApiParams(status, take, skip)
        got == CallClient("get_requests", reply)
        first == <<Call("get_requests", api_params, got)>>
        done == TvResults(Get(got.value, "results", <<>>), start_date, env,
                          [rows |-> <<>>, calls |-> first])
    IN  IF got.raised
        THEN Scoped("overseerr_tv_requests", args, first,
                        ErrorValue("Error fetching TV requests: ", got))
        ELSE Scoped("overseerr_tv_requests", args, done.calls,
                        Returned(done.rows))

\* the elements of a set, in some order
RECURSIVE SetToSeq(_)
SetToSeq(S) ==
    IF S = {} THEN <<>>
    ELSE LET x == CHOOSE y \in S : TRUE IN <<x>> \o SetToSeq(S \ {x})

\* sorted(map.keys())
SortedKeys(map) == Sorted(SetToSeq(DOMAIN map))

\* the Client is created before the names are looked up
ResolveNamesAfterConnect(library_map, library_name, user_map, user_display_name, kind) ==
    IF DOMAIN library_map = {} \/ library_name \notin DOMAIN library_map
       \/ DOMAIN user_map = {} \/ user_display_name \notin DOMAIN user_map
    THEN [ok |-> FALSE, opened |-> 1,
          error |-> <<"Invalid library or user name">>,
          server_id |-> None, user_id |-> None]
    ELSE [ok |-> TRUE, opened |-> 0, error |-> <<>>,
          server_id |-> library_map[library_name],
          user_id |-> user_map[user_display_name]]

\* the look-ups of the name-based request tools (tools.py 243-257, 280-294):
\* the library, then the user; `opened` counts the Clients created by then
ResolveNames(library_map, library_name, user_map, user_display_name, kind) ==
    LET server_id == Get(library_map, library_name, None)
        requesting_user_id == Get(user_map, user_display_name, None)
        failed(error) == [ok |-> FALSE, opened |-> 0, error |-> error,
                          server_id |-> None, user_id |-> None]
    IN  IF DOMAIN library_map = {}
        THEN failed(<<kind, " library configuration not available (fetch failed on startup?).">>)
        ELSE IF server_id = None
        THEN failed(<<"Invalid library name '", library_name, "'. Available ", kind,
                      " libraries: ">> \o SortedKeys(library_map))
        ELSE IF DOMAIN user_map = {}
        THEN failed(<<"User configuration not available (fetch failed on startup or duplicates exist?).">>)
        ELSE IF requesting_user_id = None
        THEN failed(<<"Invalid user display name '", user_display_name,
                      "'. Available display names: ">> \o SortedKeys(user_map))
        ELSE [ok |-> TRUE, opened |-> 0, error |-> <<>>,
              server_id |-> server_id, user_id |-> requesting_user_id]

\* overseerr_request_movie_to_library (tools.py 235-269)
RequestMovieTool(tables, tmdb_id, library_name, user_display_name, reply) ==
    LET args == [tmdb_id |-> tmdb_id, library_name |-> library_name,
                 user_display_name |-> user_display_name]
        found == ResolveNames(tables.movie_map, library_name,
                              tables.user_display_name_map, user_display_name, "Movie")
        got == CallClient("request_movie", reply)
        body == RequestMovieBody(tmdb_id, found.user_id, found.server_id)
    IN  IF ~found.ok
        THEN Invocation("overseerr_request_movie_to_library", args, <<>>,
                        found.opened, found.opened, Returned([error |-> found.error]))
        ELSE Invocation("overseerr_request_movie_to_library", args,
                        <<Call("request_movie", body, got)>>,
                        found.opened + Opened(WithClient(<<Call("request_movie", body, got)>>)),
                        found.opened + Closed(WithClient(<<Call("request_movie", body, got)>>)),
                        IF got.raised
                        THEN ErrorValue("Error submitting movie request: ", got)
                        ELSE got)

\* overseerr_request_tv_to_library (tools.py 271-307)
RequestTvTool(tables, tmdb_id, library_name, user_display_name, seasons, reply) ==
    LET args == [tmdb_id |-> tmdb_id, library_name |-> library_name,
                 user_display_name |-> user_display_name, seasons |-> seasons]
        found == ResolveNames(tables.tv_map, library_name,
                              tables.user_display_name_map, user_display_name, "TV")
        got == CallClient("request_tv", reply)
        body == RequestTvBody(tmdb_id, seasons, found.user_id, found.server_id)
    IN  IF ~found.ok
        THEN Invocation("overseerr_request_tv_to_library", args, <<>>,
                        found.opened, found.opened, Returned([error |-> found.error]))
        ELSE Invocation("overseerr_request_tv_to_library", args,
                        <<Call("request_tv", body, got)>>,
                        found.opened + Opened(WithClient(<<Call("request_tv", body, got)>>)),
                        found.opened + Closed(WithClient(<<Call("request_tv", body, got)>>)),
                        IF got.raised
                        THEN ErrorValue("Error submitting TV show request: ", got)
                        ELSE got)

\* date.split('-')[0] for the dates the model uses
YearOf(date) == IF date = "2021-10-22" THEN "2021" ELSE "1999"

\* the reshaping of one search hit (tools.py 324-363); a field that would be
\* None is left out of the record
SearchItem(item) ==
    LET media_type == Get(item, "mediaType", "unknown")
        date == IF media_type = "movie" THEN Get(item, "releaseDate", NoneStr)
                ELSE IF media_type = "tv" THEN Get(item, "firstAirDate", NoneStr)
                ELSE NoneStr
        title == IF media_type = "movie" THEN Get(item, "title", "Unknown Movie")
                 ELSE IF media_type = "tv" THEN Get(item, "name", "Unknown TV Show")
                 ELSE "Unknown Title"
        base == [type |-> media_type, title |-> title,
                 original_language |-> Get(item, "originalLanguage", "N/A"),
                 overview |-> Get(item, "overview", "No overview available.")]
        with_id == IF Get(item, "id", None) # None
                   THEN Put(base, "tmdb_id", item.id) ELSE base
        with_year == IF Truthy(date) THEN Put(with_id, "year", YearOf(date)) ELSE with_id
    IN  IF media_type = "movie"
        THEN Put(with_year, "original_title", Get(item, "originalTitle", title))
        ELSE IF media_type = "tv"
        THEN Put(Put(with_year, "original_name", Get(item, "originalName", title)),
                 "origin_country", Get(item, "originCountry", <<>>))
        ELSE with_year

\* overseerr_search_media (tools.py 310-372)
SearchTool(query, page, reply) ==
    LET args == [query |-> query, page |-> page]
        got == CallClient("search_media", reply)
        calls == <<Call("search_media", args, got)>>
        items == Get(got.value, "results", <<>>)
        formatted_results == [i \in DOMAIN items |-> SearchItem(items[i])]
    IN  IF got.raised
        THEN Scoped("overseerr_search_media", args, calls,
                        ErrorValue("Error searching media: ", got))
        ELSE IF formatted_results = <<>>
        THEN Scoped("overseerr_search_media", args, calls,
                        Returned([message |-> <<"No results found for query '", query,
                                                "' on page ", page, ".">>]))
        ELSE Scoped("overseerr_search_media", args, calls,
                        Returned(formatted_results))

\* the rows of the usable servers of a listing (tools.py 383-389, 395-401)
RECURSIVE ServerRows(_)
ServerRows(servers) ==
    IF servers = <<>> THEN <<>>
    ELSE LET server == Head(servers)
         IN  IF server.id # None /\ Truthy(server.name)
             THEN <<[id |-> server.id, name |-> server.name,
                     is_default |-> Get(server, "isDefault", FALSE)]>>
                  \o ServerRows(Tail(servers))
             ELSE ServerRows(Tail(servers))

\* overseerr_get_available_libraries (tools.py 374-414)
AvailableLibrariesTool(b) ==
    LET radarr == CallClient("get_radarr_servers", BackendListReply(b, b.radarr))
        sonarr == CallClient("get_sonarr_servers", BackendListReply(b, b.sonarr))
        calls == <<Call("get_radarr_servers", <<>>, radarr),
                   Call("get_sonarr_servers", <<>>, sonarr)>>
        movies == IF radarr.raised THEN <<>> ELSE ServerRows(radarr.value)
        tv_shows == IF sonarr.raised THEN <<>> ELSE ServerRows(sonarr.value)
        errors == (IF radarr.raised
                   THEN <<<<"Error fetching Radarr servers: ">> \o radarr.msg>>
                   ELSE <<>>)
                  \o (IF sonarr.raised
                      THEN <<<<"Error fetching Sonarr servers: ">> \o sonarr.msg>>
                      ELSE <<>>)
        results == [movies |-> movies, tv_shows |-> tv_shows]
    IN  Scoped("overseerr_get_available_libraries", EmptyDict, calls,
            IF errors # <<>> THEN Returned(Put(results, "errors", errors))
            ELSE IF movies = <<>> /\ tv_shows = <<>>
            THEN Returned([message |->
                     <<"No Sonarr or Radarr servers configured in Overseerr.">>])
            ELSE Returned(results))

\* user_data without the fields that are None (tools.py 434-444)
UserRow(user) ==
    LET role == [role |-> "User"]
        with_id == IF Get(user, "id", None) # None THEN Put(role, "id", user.id) ELSE role
    IN  IF Get(user, "displayName", NoneStr) # NoneStr
        THEN Put(with_id, "displayName", user.displayName) ELSE with_id

\* the while loop of overseerr_get_users (tools.py 427-451): a page that fails
\* ends the tool with an error value
RECURSIVE UsersToolPages(_, _, _, _, _)
UsersToolPages(b, page, total_pages, all_users, calls) ==
    IF page > total_pages
    THEN [failed |-> FALSE, all_users |-> all_users, calls |-> calls, error |-> <<>>]
    ELSE LET skip == (page - 1) * Take
             got == CallClient("get_users", BackendUsersReply(b, Take, skip))
             call == Call("get_users", [take |-> Take, skip |-> skip], got)
             results == Get(got.value, "results", <<>>)
         IN  IF got.raised
             THEN [failed |-> TRUE, all_users |-> all_users,
                   calls |-> Append(calls, call),
                   error |-> <<"Error fetching users (page ", page, "): ">> \o got.msg]
             ELSE UsersToolPages(b, page + 1,
                      Get(Get(got.value, "pageInfo", EmptyDict), "pages", 1),
                      all_users \o [i \in DOMAIN results |-> UserRow(results[i])],
                      Append(calls, call))

\* overseerr_get_users (tools.py 416-459)
UsersTool(b) ==
    LET done == UsersToolPages(b, 1, 1, <<>>, <<>>)
    IN  Scoped("overseerr_get_users", EmptyDict, done.calls,
            IF done.failed THEN Returned([error |-> done.error])
            ELSE IF done.all_users = <<>>
            THEN Returned([message |-> <<"No users found in Overseerr.">>])
            ELSE Returned([users |-> done.all_users,
                           total_count |-> Len(done.all_users)]))

(***************************************************************************)
(* Spec, continued: the tool invocations.                                  *)
(***************************************************************************)
StatusReplies ==
    FailureReplies \cup {OkReply([version |-> "1.33.2"]), OkReply(EmptyDict)}

MovieRequest == [media |-> [tmdbId |-> 10, status |-> 5], createdAt |-> "2024-01"]
TvRequest == [media |-> [tmdbId |-> 20, tvdbId |-> 7, status |-> 3],
              createdAt |-> "2024-03", seasons |-> <<[seasonNumber |-> 1]>>]
BareRequest == [media |-> EmptyDict, createdAt |-> "2024-03"]

RequestPages == {<<>>, <<MovieRequest>>, <<TvRequest, BareRequest>>,
                 <<MovieRequest, TvRequest>>}

ListingReplies ==
    FailureReplies \cup {OkReply([results |-> page]) : page \in RequestPages}

DetailFailures == [failDetails : SUBSET {20}, failSeasons : SUBSET {1}]

SearchReplies ==
    FailureReplies \cup
    { OkReply([results |-> <<>>]),
      OkReply([results |-> <<[mediaType |-> "movie", id |-> 10, title |-> "Dune",
                              releaseDate |-> "2021-10-22"],
                             [mediaType |-> "tv", id |-> 20, name |-> "Show"]>>]) }

SubmitReplies ==
    FailureReplies \cup {OkReply([id |-> 1, status |-> 2]),
                         Reply(FALSE, 201, "empty", EmptyDict, "")}

InvokeStatus ==
    /\ pc = "serving"
    /\ \E reply \in StatusReplies : inv' = StatusTool(reply)
    /\ pc' = "returned"
    /\ UNCHANGED <<initial_server_data, backend, locals>>

InvokeMovieRequests ==
    /\ pc = "serving"
    /\ \E status \in {NoneStr, "pending", "bogus"}, start_date \in {NoneStr, "2024-02"},
          take \in {None, 3}, reply \in ListingReplies, env \in DetailFailures :
          inv' = MovieRequestsTool(status, start_date, take, 0, reply, env)
    /\ pc' = "returned"
    /\ UNCHANGED <<initial_server_data, backend, locals>>

InvokeTvRequests ==
    /\ pc = "serving"
    /\ \E status \in {NoneStr, "pending", "bogus"}, start_date \in {NoneStr, "2024-02"},
          take \in {None, 3}, reply \in ListingReplies, env \in DetailFailures :
          inv' = TvRequestsTool(status, start_date, take, 0, reply, env)
    /\ pc' = "returned"
    /\ UNCHANGED <<initial_server_data, backend, locals>>

SeasonLists ==
    {NoneList} \cup {SomeList(items) : items \in SeqsUpTo(1..2, MaxSeasons)}

InvokeRequestMovie ==
    /\ pc = "serving"
    /\ \E library_name \in Names \cup {"zz"}, user_display_name \in Names \cup {"zz"},
          reply \in SubmitReplies :
          inv' = RequestMovieTool(initial_server_data, 10, library_name,
                                  user_display_name, reply)
    /\ pc' = "returned"
    /\ UNCHANGED <<initial_server_data, backend, locals>>

InvokeRequestTv ==
    /\ pc = "serving"
    /\ \E library_name \in Names \cup {"zz"}, user_display_name \in Names \cup {"zz"},
          seasons \in SeasonLists, reply \in SubmitReplies :
          inv' = RequestTvTool(initial_server_data, 20, library_name,
                               user_display_name, seasons, reply)
    /\ pc' = "returned"
    /\ UNCHANGED <<initial_server_data, backend, locals>>

InvokeSearch ==
    /\ pc = "serving"
    /\ \E reply \in SearchReplies : inv' = SearchTool("dune", 1, reply)
    /\ pc' = "returned"
    /\ UNCHANGED <<initial_server_data, backend, locals>>

InvokeAvailableLibraries ==
    /\ pc = "serving"
    /\ inv' = AvailableLibrariesTool(backend)
    /\ pc' = "returned"
    /\ UNCHANGED <<initial_server_data, backend, locals>>

InvokeUsers ==
    /\ pc = "serving"
    /\ inv' = UsersTool(backend)
    /\ pc' = "returned"
    /\ UNCHANGED <<initial_server_data, backend, locals>>

InvokeTool ==
    \/ InvokeStatus \/ InvokeMovieRequests \/ InvokeTvRequests
    \/ InvokeRequestMovie \/ InvokeRequestTv \/ InvokeSearch
    \/ InvokeAvailableLibraries \/ InvokeUsers

\* the invocation is over; the next one starts from the same tables
Return ==
    /\ pc = "returned"
    /\ pc' = "serving"
    /\ inv' = NoInvocation
    /\ UNCHANGED <<initial_server_data, backend, locals>>

Next == FetchInitialData \/ Serve \/ InvokeTool \/ Return

Spec == Init /\ [][Next]_vars

ToolNames ==
    {"overseerr_status", "overseerr_movie_requests", "overseerr_tv_requests",
     "overseerr_request_movie_to_library", "overseerr_request_tv_to_library",
     "overseerr_search_media", "overseerr_get_available_libraries",
     "overseerr_get_users"}

\* C1: no tool invocation ends by raising, whatever failure the Client raises:
\* it returns an error value or a success value.
C1_ToolsNeverRaise ==
    (pc = "returned" /\ inv.op \in ToolNames) => ~inv.outcome.raised

\* the positions of the backend's entries carrying a name
Reported(entries, key, name) == {i \in DOMAIN entries : entries[i][key] = name}

\* C2: after enrichment against a reachable backend that reports a library of
\* unique name N with id L and a user of unique displayName D with id U, the
\* name-based movie (TV) request for N and D issues exactly one submit call
\* carrying serverId L and userId U and returns that call's result.
C2_NameBasedRequestResolves ==
    (pc = "returned"
        /\ inv.op \in {"overseerr_request_movie_to_library",
                       "overseerr_request_tv_to_library"}
        /\ backend.reachable)
    => LET libraries == IF inv.op = "overseerr_request_movie_to_library"
                        THEN backend.radarr ELSE backend.sonarr
           named == Reported(libraries, "name", inv.args.library_name)
           users == Reported(backend.users, "displayName", inv.args.user_display_name)
       IN  (Cardinality(named) = 1 /\ Cardinality(users) = 1)
           => /\ Len(inv.calls) = 1
              /\ inv.calls[1].name \in {"request_movie", "request_tv"}
              /\ inv.calls[1].sent.serverId = libraries[Min(named)].id
              /\ inv.calls[1].sent.userId = backend.users[Min(users)].id
              /\ ~inv.calls[1].raised => "error" \notin DOMAIN inv.outcome.value

TableServers == [id : Ids, name : Names]
TableUsers == [id : Ids, displayName : Names]

InitTools ==
    /\ pc = "serving"
    /\ \E movies \in SeqsUpTo(TableServers, MaxBackend),
          tv \in SeqsUpTo(TableServers, MaxBackend),
          users \in SeqsUpTo(TableUsers, MaxBackend) :
          initial_server_data = Publish(LibraryLoop(movies, NoLibraries),
                                        LibraryLoop(tv, NoLibraries),
                                        UserLoop(users, NoUsers))
    /\ backend = NoBackend
    /\ locals = NoLocals
    /\ inv = NoInvocation

NextTools == InvokeRequestMovie \/ InvokeRequestTv \/ Return

SpecTools == InitTools /\ [][NextTools]_vars

\* the library table a name-based tool looks the library up in
LibraryTableOf(op) ==
    IF op = "overseerr_request_movie_to_library"
    THEN initial_server_data.movie_map ELSE initial_server_data.tv_map

\* the look-ups of the invocation cannot both succeed
Unresolvable ==
    \/ DOMAIN LibraryTableOf(inv.op) = {}
    \/ DOMAIN initial_server_data.user_display_name_map = {}
    \/ inv.args.library_name \notin DOMAIN LibraryTableOf(inv.op)
    \/ inv.args.user_display_name \notin DOMAIN initial_server_data.user_display_name_map

\* C3: in the name-based request tools, an unknown library name, an unknown
\* user display name or an empty table gives an error value with no Client
\* created and no call issued; the submit call is issued only when both
\* look-ups succeeded.
C3_RejectedBeforeAnyCall ==
    pc = "returned" =>
      /\ Unresolvable
           => /\ ~inv.outcome.raised
              /\ "error" \in DOMAIN inv.outcome.value
              /\ inv.opened = 0
              /\ inv.calls = <<>>
      /\ inv.calls # <<>> => ~Unresolvable

\* a name missing from a table that is not empty was rejected without a Client
C3_Witness ==
    /\ pc = "returned"
    /\ DOMAIN LibraryTableOf(inv.op) # {}
    /\ DOMAIN initial_server_data.user_display_name_map # {}
    /\ inv.args.library_name \in DOMAIN LibraryTableOf(inv.op)
    /\ inv.args.user_display_name \notin DOMAIN initial_server_data.user_display_name_map
    /\ "error" \in DOMAIN inv.outcome.value
    /\ inv.opened = 0

\* C7: the body of a TV request sent upstream carries seasons = [-1] when the
\* season list is omitted or empty, and exactly the given list otherwise.
C7_AllSeasonsSentinel ==
    (pc = "returned" /\ inv.op = "overseerr_request_tv_to_library"
        /\ inv.calls # <<>>)
    => /\ inv.calls[1].name = "request_tv"
       /\ inv.calls[1].sent.seasons # <<>>
       /\ IF inv.args.seasons.none \/ inv.args.seasons.items = <<>>
          THEN inv.calls[1].sent.seasons = <<-1>>
          ELSE inv.calls[1].sent.seasons = inv.args.seasons.items

\* a TV request with an empty season list was sent with the sentinel
C7_Witness ==
    /\ pc = "returned" /\ inv.op = "overseerr_request_tv_to_library"
    /\ inv.calls # <<>>
    /\ ~inv.args.seasons.none /\ inv.args.seasons.items = <<>>
    /\ inv.calls[1].sent.seasons = <<-1>>

(***************************************************************************)
(* SpecListing: the two request listings applied to every page of          *)
(* requests, date filter and failure of the detail fetches of the bounded  *)
(* sets.                                                                   *)
(***************************************************************************)
MaxPage == 2              \* longest page of requests drawn

\* the media sub-objects of the drawn requests: empty, without tvdbId, with a
\* null or zero tvdbId, and with a tvdbId (with and without a tmdbId); the
\* mediaType fields contradict the tvdbId
MediaObjects ==
    { EmptyDict,
      [tmdbId |-> 10, status |-> 5],
      [tmdbId |-> 10, tvdbId |-> None, mediaType |-> "tv"],
      [tmdbId |-> 10, tvdbId |-> 0, status |-> 9],
      [tmdbId |-> 20, tvdbId |-> 7, status |-> 3, mediaType |-> "movie"],
      [tvdbId |-> 7] }

\* the seasons a drawn request names
RequestedLists == {<<>>, <<[seasonNumber |-> 2]>>}

\* the createdAt of the request at a position of the page
DateAt(i) == CASE i = 1 -> "2024-01" [] i = 2 -> "2024-02" [] OTHER -> "2024-03"

\* the drawn pages: the request at position i was created at DateAt(i)
ListingPages ==
    UNION { { [i \in 1..k |-> [media |-> m[i], seasons |-> r[i], createdAt |-> DateAt(i)]]
              : m \in [1..k -> MediaObjects], r \in [1..k -> RequestedLists] }
            : k \in 0..MaxPage }

\* the season lists of the show the backend holds
ShowSeasonLists ==
    { TvDetails.seasons,
      <<[seasonNumber |-> 2], [name |-> "Extras"], [seasonNumber |-> 1]>> }

ListingEnvs ==
    [failDetails : SUBSET {20}, failSeasons : SUBSET (1..CatalogSeasons),
     show : {[name |-> "Show", seasons |-> seasons] : seasons \in ShowSeasonLists}]

InitListing ==
    /\ pc = "page"
    /\ locals \in [page : ListingPages, start_date : {NoneStr, "2024-02"},
                   env : ListingEnvs]
    /\ inv = NoInvocation
    /\ initial_server_data = EmptyTables
    /\ backend = NoBackend

\* overseerr_movie_requests on the drawn page
ListMovies ==
    /\ pc = "page"
    /\ pc' = "listed"
    /\ inv' = MovieRequestsTool(NoneStr, locals.start_date, None, None,
                                OkReply([results |-> locals.page]), locals.env)
    /\ UNCHANGED <<initial_server_data, backend, locals>>

\* overseerr_tv_requests on the drawn page
ListTv ==
    /\ pc = "page"
    /\ pc' = "listed"
    /\ inv' = TvRequestsTool(NoneStr, locals.start_date, None, None,
                             OkReply([results |-> locals.page]), locals.env)
    /\ UNCHANGED <<initial_server_data, backend, locals>>

NextListing == ListMovies \/ ListTv

SpecListing == InitListing /\ [][NextListing]_vars

\* the media sub-object of the request at a position of the drawn page
MediaAt(i) == Get(locals.page[i], "media", EmptyDict)

\* the request has a TV-specific external id
HasTvdbId(i) == TruthyId(Get(MediaAt(i), "tvdbId", None))

\* the rows of the listing that come from the request at a position
RowsOf(i) ==
    {j \in DOMAIN inv.outcome.value : inv.outcome.value[j].request_date = DateAt(i)}

ListedMovies == pc = "listed" /\ inv.op = "overseerr_movie_requests"
ListedTv == pc = "listed" /\ inv.op = "overseerr_tv_requests"

\* C11: with no date filter, a request whose media sub-object has no tvdbId
\* (absent, null or empty, an empty media sub-object included) is excluded
\* from the TV listing and included in the movie listing, and a request with a
\* tvdbId is excluded from the movie listing.
C11_SplitByTvdbId ==
    (pc = "listed" /\ locals.start_date = NoneStr) =>
      \A i \in DOMAIN locals.page :
         /\ (~HasTvdbId(i) /\ ListedTv) => RowsOf(i) = {}
         /\ (~HasTvdbId(i) /\ ListedMovies) => RowsOf(i) # {}
         /\ (HasTvdbId(i) /\ ListedMovies) => RowsOf(i) = {}

\* C11 as amended: the same for the requests whose media sub-object is not
\* empty; a request whose media sub-object is empty is in neither listing.
C11_SplitByTvdbIdOfMedia ==
    (pc = "listed" /\ locals.start_date = NoneStr) =>
      \A i \in DOMAIN locals.page :
         /\ (~HasTvdbId(i) /\ ListedTv) => RowsOf(i) = {}
         /\ (~HasTvdbId(i) /\ DOMAIN MediaAt(i) # {} /\ ListedMovies)
              => Cardinality(RowsOf(i)) = 1
         /\ (HasTvdbId(i) /\ ListedMovies) => RowsOf(i) = {}
         /\ DOMAIN MediaAt(i) = {} => RowsOf(i) = {}

\* a request whose media says mediaType "tv" and has a null tvdbId is a row of
\* the movie listing, next to a request with a tvdbId that is not
C11_Witness ==
    /\ ListedMovies /\ locals.start_date = NoneStr
    /\ Len(locals.page) = 2
    /\ MediaAt(1) = [tmdbId |-> 10, tvdbId |-> None, mediaType |-> "tv"]
    /\ HasTvdbId(2)
    /\ RowsOf(1) # {} /\ RowsOf(2) = {}


\* the request passes the filters of the TV listing
PassesTv(i) ==
    /\ DOMAIN MediaAt(i) # {} /\ HasTvdbId(i)
    /\ ~Before(locals.start_date, DateAt(i))

\* the show details of the request were asked for, and whether they came
ShowAsked(i) == TruthyId(Get(MediaAt(i), "tmdbId", None))
ShowFetched(i) == ShowAsked(i) /\ MediaAt(i).tmdbId \notin locals.env.failDetails

\* the season numbers the request names, and the seasons of the show it selects
RequestedOf(i) ==
    {Get(locals.page[i].seasons[j], "seasonNumber", None) :
        j \in DOMAIN locals.page[i].seasons}

SelectedSeasons(i) ==
    {n \in {Get(locals.env.show.seasons[j], "seasonNumber", None) :
               j \in DOMAIN locals.env.show.seasons} :
        n # None /\ n # 0 /\ (RequestedOf(i) = {} \/ n \in RequestedOf(i))}

\* the rows of the listing for one season of the request at a position
SeasonRows(i, n) ==
    {inv.outcome.value[j] : j \in {k \in RowsOf(i) :
                                     inv.outcome.value[k].tv_season = <<"S", Pad2(n)>>}}

SeasonPlaceholder(n) == <<[error |-> <<"Could not fetch details for ", "S", Pad2(n)>>]>>

C13_EveryTvRequestRepresented ==
    ListedTv =>
      \A i \in DOMAIN locals.page :
        (PassesTv(i) /\ ShowAsked(i)) =>
          /\ RowsOf(i) # {}
          /\ ~ShowFetched(i) =>
                \E j \in RowsOf(i) :
                   inv.outcome.value[j].tv_title =
                      Title("Unknown TV Show (ID: {tv_id})", MediaAt(i).tmdbId)


\* ---------------------------------------------------------------------
\* The season loop of one TV request, one step at a time (tools.py 166-206):
\* the loop variable walks the show's season list, a selected season's
\* details are asked for, and the loop is suspended until the reply is in.
\* ---------------------------------------------------------------------
MaxShowSeasons == 3

SeasonSummaries == {[seasonNumber |-> 0], [seasonNumber |-> 1], [seasonNumber |-> 2],
                    [name |-> "Extras"]}
FanoutRequested == SUBSET {1, 2} \cup {{None}}
FanoutRow == [tv_id |-> 20, tv_title |-> Title("Show", None),
              tv_title_availability |-> MediaStatus(5), request_date |-> DateAt(1)]

InitFanout ==
    /\ pc = "seasons"
    /\ locals \in [seasons_data : SeqsUpTo(SeasonSummaries, MaxShowSeasons),
                   requested_seasons : FanoutRequested,
                   env : [failDetails : {{}}, failSeasons : SUBSET {1, 2}],
                   next : {1}, pending : {{}}, issued : {<<>>},
                   acc : {[rows |-> <<>>, calls |-> <<>>]}]
    /\ inv = NoInvocation
    /\ initial_server_data = EmptyTables
    /\ backend = NoBackend

\* a suspended call keeps the loop from running on
NotAwaited(pending) == TRUE

\* `await client.get_season_details(...)` (tools.py 183): the loop runs on only
\* when the call it waits for is over
Awaited(pending) == pending = {}

\* the two `continue` tests of the loop (tools.py 171-174)
SeasonSkipped(season_summary, requested_seasons) ==
    LET season_number == Get(season_summary, "seasonNumber", None)
    IN  \/ season_number = None \/ season_number = 0
        \/ requested_seasons # {} /\ season_number \notin requested_seasons

\* the loop passes over a season without asking for it
SeasonSkip ==
    /\ pc = "seasons" /\ Awaited(locals.pending)
    /\ locals.next <= Len(locals.seasons_data)
    /\ SeasonSkipped(locals.seasons_data[locals.next], locals.requested_seasons)
    /\ locals' = [locals EXCEPT !.next = @ + 1]
    /\ UNCHANGED <<pc, inv, initial_server_data, backend>>

\* the loop asks for the details of a season and is suspended
SeasonCall ==
    /\ pc = "seasons" /\ Awaited(locals.pending)
    /\ locals.next <= Len(locals.seasons_data)
    /\ ~SeasonSkipped(locals.seasons_data[locals.next], locals.requested_seasons)
    /\ locals' = [locals EXCEPT !.next = @ + 1,
                                !.pending = @ \cup {locals.next},
                                !.issued = Append(@, locals.seasons_data[locals.next].seasonNumber)]
    /\ UNCHANGED <<pc, inv, initial_server_data, backend>>

\* the reply of a call is in: the row of the season is appended
SeasonDone ==
    /\ pc = "seasons"
    /\ \E k \in locals.pending :
         locals' = [locals EXCEPT !.pending = @ \ {k},
                                  !.acc = TvSeasonStep(locals.seasons_data[k], FanoutRow,
                                                       locals.requested_seasons,
                                                       locals.env, @)]
    /\ UNCHANGED <<pc, inv, initial_server_data, backend>>

\* the season list is exhausted
SeasonsEnd ==
    /\ pc = "seasons" /\ Awaited(locals.pending)
    /\ locals.next > Len(locals.seasons_data)
    /\ pc' = "listed"
    /\ UNCHANGED <<locals, inv, initial_server_data, backend>>

NextFanout == SeasonSkip \/ SeasonCall \/ SeasonDone \/ SeasonsEnd
SpecFanout == InitFanout /\ [][NextFanout]_vars


\* the season numbers of the show, in the order of its season list, that are
\* not 0 and, when the request names seasons, are among the named ones
RECURSIVE SeasonsToFetch(_, _)
SeasonsToFetch(seasons, requested) ==
    IF seasons = <<>> THEN <<>>
    ELSE LET n == Get(Head(seasons), "seasonNumber", None)
             rest == SeasonsToFetch(Tail(seasons), requested)
         IN  IF n # None /\ n # 0 /\ (requested = {} \/ n \in requested)
             THEN <<n>> \o rest
             ELSE rest

\* the first seasons of a list of seasons
Prefix(s, t) == Len(s) <= Len(t) /\ s = SubSeq(t, 1, Len(s))

\* the seasons whose calls are over, in the order the calls ended
CompletedSeasons == [i \in DOMAIN locals.acc.calls |-> locals.acc.calls[i].sent.season]

\* C14: in the season loop of a TV request whose show details were fetched, at
\* most one season-details call is in flight; the calls issued so far are the
\* first ones of the show's seasons that are not 0 and are among the requested
\* ones if any, in the order of the show's season list; every call but at most
\* the last is over, in that order; when the loop ends exactly those seasons
\* were called for and have a row each, in that order, and season 0 was never
\* asked for.
C14_SelectedSeasonsInOrder ==
    pc \in {"seasons", "listed"} =>
      LET wanted == SeasonsToFetch(locals.seasons_data, locals.requested_seasons)
      IN  /\ Cardinality(locals.pending) <= 1
          /\ Prefix(locals.issued, wanted)
          /\ Prefix(CompletedSeasons, locals.issued)
          /\ Len(locals.issued) = Len(CompletedSeasons) + Cardinality(locals.pending)
          /\ \A i \in DOMAIN locals.issued : locals.issued[i] # 0
          /\ pc = "listed" =>
               /\ locals.issued = wanted /\ CompletedSeasons = wanted
               /\ [i \in DOMAIN locals.acc.rows |-> locals.acc.rows[i].tv_season]
                    = [i \in DOMAIN wanted |-> <<"S", Pad2(wanted[i])>>]

\* a show with seasons 0, 2, 1 and a request naming no season: season 2 was
\* called for and is over, season 1 is in flight, season 0 was passed over
C14_Witness ==
    /\ pc = "seasons"
    /\ locals.seasons_data = <<[seasonNumber |-> 0], [seasonNumber |-> 2], [seasonNumber |-> 1]>>
    /\ locals.requested_seasons = {}
    /\ locals.issued = <<2, 1>> /\ CompletedSeasons = <<2>>
    /\ locals.pending = {3}


\* ---------------------------------------------------------------------
\* The tools invoked on every set of look-up tables: the ones the process
\* builds at import and the ones an enrichment could build.
\* ---------------------------------------------------------------------
SpecScopes == (Init \/ InitTools) /\ [][Next]_vars

\* C15: when a tool invocation has returned or raised, every Client connection
\* it opened is closed: on success, on a validation error, on an error value
\* returned from inside the scope and on an exception.
C15_ConnectionsClosedOnExit ==
    (pc = "returned" /\ inv.op \in ToolNames) => inv.closed = inv.opened

\* a status query that ended by an exception raised inside the scope, its one
\* connection closed
C15_Witness ==
    /\ pc = "returned" /\ inv.op = "overseerr_status"
    /\ inv.outcome.raised
    /\ inv.opened = 1 /\ inv.closed = 1


\* ---------------------------------------------------------------------
\* SpecPages: the user fetch of fetch_initial_data (server.py 75-118) on a
\* client that answers the listing of users, for every way the pages can be
\* answered: a failure, or a page of users with the page count it reports.
\* ---------------------------------------------------------------------
MaxPages == 3

PageResults == {<<>>, <<[id |-> 1, displayName |-> "a"]>>,
                <<[id |-> 0, displayName |-> "a"]>>}
PageReplies ==
    {NetFailure}
      \cup {OkReply([pageInfo |-> [pages |-> n], results |-> r]) :
               n \in 0..MaxPages, r \in PageResults}
      \cup {OkReply([results |-> <<[id |-> 1, displayName |-> "b"]>>])}

InitPages ==
    /\ pc = "users"
    /\ locals \in [replies : [1..MaxPages -> PageReplies]]
    /\ inv = NoInvocation
    /\ initial_server_data = EmptyTables
    /\ backend = NoBackend

\* what the calls of the pages give
PageGots == [p \in 1..MaxPages |-> SafeRequest("GET", "/api/v1/user", locals.replies[p])]

\* the pages are fetched, the users de-duplicated and the table published
FetchUsers ==
    /\ pc = "users"
    /\ pc' = "published"
    /\ LET fetched == UsersPagesOn(PageGots, 1, 1, <<>>, <<>>)
       IN  /\ inv' = Scoped("fetch_initial_data", EmptyDict, fetched.calls,
                            Returned(EmptyDict))
           /\ initial_server_data' =
                 Publish(NoLibraries, NoLibraries,
                         UserLoop(fetched.all_users_raw, NoUsers))
    /\ UNCHANGED <<backend, locals>>

NextPages == FetchUsers
SpecPages == InitPages /\ [][NextPages]_vars

\* the page count a reply reports (1 when it reports none), and its users
ReportedPages(p) == Get(Get(PageGots[p].value, "pageInfo", EmptyDict), "pages", 1)
UsersOfPage(p) == Get(PageGots[p].value, "results", <<>>)

\* the users of the first pages
RECURSIVE UsersOfPages(_)
UsersOfPages(k) == IF k = 0 THEN <<>> ELSE UsersOfPages(k - 1) \o UsersOfPage(k)

\* C16: the user fetch asks for page 1, 2, ... with take 50 and skip 0, 50,
\* 100, ...; page i + 1 is asked for only when page i was fetched and i + 1
\* does not exceed the page count page i reported; after a failed page no
\* page is asked for; the users of the pages fetched before the failure (all
\* pages, when none failed) go through the de-duplication into the published
\* user table.
C16_PaginationStopsAtFailure ==
    pc = "published" =>
      LET asked == Len(inv.calls)
          kept == IF inv.calls[asked].raised THEN asked - 1 ELSE asked
      IN  /\ asked >= 1
          /\ \A i \in 1..asked :
                /\ inv.calls[i].name = "get_users"
                /\ inv.calls[i].sent = [take |-> 50, skip |-> (i - 1) * 50]
                /\ inv.calls[i].raised = PageGots[i].raised
          /\ \A i \in 1..(asked - 1) :
                ~inv.calls[i].raised /\ i + 1 <= ReportedPages(i)
          /\ ~inv.calls[asked].raised => asked + 1 > ReportedPages(asked)
          /\ initial_server_data =
                Publish(NoLibraries, NoLibraries, UserLoop(UsersOfPages(kept), NoUsers))

\* three pages reported, the third fails: the user of page 2 is in the table,
\* and no fourth call was made
C16_Witness ==
    /\ pc = "published"
    /\ Len(inv.calls) = 3 /\ inv.calls[3].raised
    /\ ReportedPages(1) = 3 /\ ReportedPages(2) = 3
    /\ UsersOfPage(1) = <<>>
    /\ UsersOfPage(2) = <<[id |-> 1, displayName |-> "a"]>>
    /\ initial_server_data.user_display_names = <<"a">>
    /\ initial_server_data.user_display_name_map["a"] = 1


\* ---------------------------------------------------------------------
\* SpecClient: one Overseerr instance used by coroutines of one event loop.
\* _get_client has no await, so it runs in one step; close awaits aclose, so
\* other coroutines can run between its two halves.
\* ---------------------------------------------------------------------
MaxConnections == 4

InitClient ==
    /\ pc = "client"
    /\ locals = [o |-> NewOverseerr, before |-> NewOverseerr, last |-> "init",
                 suspended |-> 0, overlapped |-> FALSE]
    /\ inv = NoInvocation
    /\ initial_server_data = EmptyTables
    /\ backend = NoBackend

\* the instance can obtain a connection without passing the bound
CanObtain(o) == ~(o._client = 0 \/ IsClosed(o)) \/ Len(o.made) < MaxConnections

\* an operation on the instance: the step is recorded, and whether it started
\* while a close was suspended
Operation(name, o) ==
    locals' = [locals EXCEPT !.o = o, !.before = locals.o, !.last = name,
                             !.overlapped = @ \/ locals.suspended > 0]

\* await self._get_client()
GetConnection ==
    /\ pc = "client" /\ CanObtain(locals.o)
    /\ Operation("get", GetClient(locals.o))
    /\ UNCHANGED <<pc, inv, initial_server_data, backend>>

\* _safe_request: the connection is obtained and the request sent on it
Request ==
    /\ pc = "client" /\ CanObtain(locals.o)
    /\ Operation("request", GetClient(locals.o))
    /\ UNCHANGED <<pc, inv, initial_server_data, backend>>

\* close() on an instance with nothing to close
CloseNothing ==
    /\ pc = "client" /\ ~Closable(locals.o)
    /\ Operation("close", locals.o)
    /\ UNCHANGED <<pc, inv, initial_server_data, backend>>

\* close() up to its await
CloseBegin ==
    /\ pc = "client" /\ Closable(locals.o)
    /\ locals' = [locals EXCEPT !.o = CloseStart(locals.o), !.before = locals.o,
                                !.last = "closing",
                                !.suspended = @ + 1,
                                !.overlapped = @ \/ locals.suspended > 0]
    /\ UNCHANGED <<pc, inv, initial_server_data, backend>>

\* a suspended close() runs on
CloseEnd ==
    /\ pc = "client" /\ locals.suspended > 0
    /\ locals' = [locals EXCEPT !.o = CloseFinish(locals.o), !.before = locals.o,
                                !.last = "close", !.suspended = @ - 1]
    /\ UNCHANGED <<pc, inv, initial_server_data, backend>>

NextClient == GetConnection \/ Request \/ CloseNothing \/ CloseBegin \/ CloseEnd
SpecClient == InitClient /\ [][NextClient]_vars


\* the connections the instance made that are not closed
Live(o) == {i \in DOMAIN o.made : o.made[i] = "open"}

\* the instance has at most one live connection, the one it references, and
\* the operation that obtained a connection left a live one, a new one when
\* the one before was closed or gone
OneLiveConnection ==
    /\ Cardinality(Live(locals.o)) <= 1
    /\ \A i \in Live(locals.o) : i = locals.o._client
    /\ locals.last \in {"get", "request"} =>
         /\ locals.o._client \in Live(locals.o)
         /\ (locals.before._client = 0 \/ IsClosed(locals.before))
              => locals.o._client \notin DOMAIN locals.before.made

\* C17: after any sequence of get-connection, request and close operations on
\* one instance, a close suspended while another operation obtains a
\* connection included, the instance has at most one live connection it
\* created, every live connection it created is the one it references, and
\* obtaining a connection after a close yields a new live connection.
C17_OneLiveConnectionAlways == pc = "client" => OneLiveConnection

\* C17 as amended: the same after any sequence in which no operation started
\* while a close was suspended.
C17_OneLiveConnectionSequential ==
    (pc = "client" /\ ~locals.overlapped) => OneLiveConnection

\* a connection obtained, closed, and obtained again: the second connection
\* is live and referenced, the first is closed
C17_Witness ==
    /\ pc = "client" /\ ~locals.overlapped
    /\ locals.last = "get"
    /\ locals.o = [_client |-> 2, made |-> <<"closed", "open">>]
    /\ locals.before = [_client |-> 0, made |-> <<"closed">>]

====
